---- MODULE Spec2Model ----
(***************************************************************************)
(* A model of src/index.ts: the request-options pipeline of the fetch      *)
(* wrapper (mergeDeep, convertInputToURL, stringifyParams,                 *)
(* transformOptions, request) and the instances createFetchInstance makes. *)
(*                                                                         *)
(* JavaScript strings are sequences of one-character strings.  Objects     *)
(* live in a heap (a sequence of objects, an address is an index), so that *)
(* aliasing and in-place mutation are those of the source.                 *)
(***************************************************************************)
EXTENDS Integers, Sequences, FiniteSets, TLC

VARIABLES heap, created, before, location, pc, last

vars == <<heap, created, before, location, pc, last>>

(***************************************************************************)
(* Strings                                                                 *)
(***************************************************************************)
RECURSIVE Concat(_)
Concat(ss) == IF ss = <<>> THEN <<>> ELSE Head(ss) \o Concat(Tail(ss))

RECURSIVE Join(_, _)
Join(ss, sep) ==
  IF ss = <<>> THEN <<>>
  ELSE IF Len(ss) = 1 THEN ss[1]
  ELSE ss[1] \o sep \o Join(Tail(ss), sep)

LowerLetters ==
  {"a","b","c","d","e","f","g","h","i","j","k","l","m",
   "n","o","p","q","r","s","t","u","v","w","x","y","z"}

DigitSeq == <<"0","1","2","3","4","5","6","7","8","9">>

Digits == {DigitSeq[i] : i \in 1..10}

\* String.prototype.toLowerCase on one character (the upper-case letters the
\* model's strings use).
ToLowerChar(c) ==
  CASE c = "A" -> "a" [] c = "B" -> "b" [] c = "C" -> "c" [] c = "D" -> "d"
    [] c = "E" -> "e" [] c = "G" -> "g" [] c = "H" -> "h" [] c = "L" -> "l"
    [] c = "O" -> "o" [] c = "P" -> "p" [] c = "S" -> "s" [] c = "T" -> "t"
    [] c = "U" -> "u" [] c = "Y" -> "y" [] OTHER -> c

ToLower(s) == [i \in 1..Len(s) |-> ToLowerChar(s[i])]

\* The literals of the source.
K_body == <<"b","o","d","y">>
K_headers == <<"h","e","a","d","e","r","s">>
K_params == <<"p","a","r","a","m","s">>
K_baseURL == <<"b","a","s","e","U","R","L">>
K_method == <<"m","e","t","h","o","d">>
S_GET == <<"G","E","T">>
S_POST == <<"P","O","S","T">>
S_PUT == <<"P","U","T">>
S_PATCH == <<"P","A","T","C","H">>
S_DELETE == <<"D","E","L","E","T","E">>
S_contentType == <<"c","o","n","t","e","n","t","-","t","y","p","e">>
S_applicationJson ==
  <<"a","p","p","l","i","c","a","t","i","o","n","/","j","s","o","n">>
S_null == <<"n","u","l","l">>

(***************************************************************************)
(* Values and objects                                                      *)
(***************************************************************************)
Undefined == [t |-> "undefined", s |-> <<>>, a |-> 0]
Null == [t |-> "null", s |-> <<>>, a |-> 0]
Str(s) == [t |-> "string", s |-> s, a |-> 0]
Num(s) == [t |-> "number", s |-> s, a |-> 0]
Ref(a) == [t |-> "ref", s |-> <<>>, a |-> a]

\* An own enumerable property.
E(k, v) == [k |-> k, v |-> v]

\* cls is the constructor; ents the own enumerable properties in iteration
\* order; list the header list of a Headers; base, hasQuery and query the
\* URL record of a URL (or the url of a Request): everything before "?", and
\* the query (hasQuery is FALSE for the null query).
Obj(ents) ==
  [cls |-> "Object", ents |-> ents, list |-> <<>>,
   base |-> <<>>, hasQuery |-> FALSE, query |-> <<>>]
\* The key of an array's element i (from 0).
IndexKey(i) == <<DigitSeq[i + 1]>>

Arr(vals) ==
  [cls |-> "Array",
   ents |-> [i \in 1..Len(vals) |-> E(IndexKey(i - 1), vals[i])],
   list |-> <<>>, base |-> <<>>, hasQuery |-> FALSE, query |-> <<>>]
HeadersObj(list) ==
  [cls |-> "Headers", ents |-> <<>>, list |-> list,
   base |-> <<>>, hasQuery |-> FALSE, query |-> <<>>]
URLObj(base, hasQuery, query) ==
  [cls |-> "URL", ents |-> <<>>, list |-> <<>>,
   base |-> base, hasQuery |-> hasQuery, query |-> query]
RequestObj(base, hasQuery, query) ==
  [cls |-> "Request", ents |-> <<>>, list |-> <<>>,
   base |-> base, hasQuery |-> hasQuery, query |-> query]
BlobObj ==
  [cls |-> "Blob", ents |-> <<>>, list |-> <<>>,
   base |-> <<>>, hasQuery |-> FALSE, query |-> <<>>]

\* new: the object is appended to the heap, its address is the new length.
Alloc(h, o) == Append(h, o)
NewAddr(h) == Len(h) + 1

IsRef(v) == v.t = "ref"

\* ToBoolean.
Truthy(v) ==
  CASE v.t = "undefined" -> FALSE
    [] v.t = "null" -> FALSE
    [] v.t = "string" -> v.s # <<>>
    [] v.t = "number" -> v.s # <<"0">>
    [] OTHER -> TRUE

\* ToString of a primitive.
ToStr(v) ==
  CASE v.t = "undefined" -> <<"u","n","d","e","f","i","n","e","d">>
    [] v.t = "null" -> S_null
    [] OTHER -> v.s

\* Own enumerable property keys in iteration order (Object.keys, for..in
\* with hasOwnProperty, object spread): a Headers, URL, Request or Blob has
\* none.
OwnKeys(h, v) ==
  IF IsRef(v) THEN [i \in 1..Len(h[v.a].ents) |-> h[v.a].ents[i].k] ELSE <<>>

HasOwn(o, k) == \E i \in 1..Len(o.ents) : o.ents[i].k = k

\* o[k] for the own properties the model's objects carry.
GetProp(o, k) ==
  IF HasOwn(o, k)
  THEN o.ents[CHOOSE i \in 1..Len(o.ents) : o.ents[i].k = k].v
  ELSE Undefined

Get(h, v, k) == IF IsRef(v) THEN GetProp(h[v.a], k) ELSE Undefined

IsIndexKey(k) == Len(k) = 1 /\ k[1] \in Digits

DigitValue(c) == CHOOSE n \in 0..9 : DigitSeq[n + 1] = c

\* Whether key k iterates before key j when k is created after j: integer
\* keys come first, in ascending order; the other keys in creation order.
KeyBefore(k, j) ==
  IsIndexKey(k) /\ (~IsIndexKey(j) \/ DigitValue(k[1]) < DigitValue(j[1]))

\* o[k] = v on an ordinary object.
PutProp(o, k, v) ==
  IF HasOwn(o, k)
  THEN [o EXCEPT !.ents =
          [i \in 1..Len(o.ents) |->
             IF o.ents[i].k = k THEN E(k, v) ELSE o.ents[i]]]
  ELSE LET n == Cardinality({i \in 1..Len(o.ents) : ~KeyBefore(k, o.ents[i].k)})
       IN [o EXCEPT !.ents =
             SubSeq(o.ents, 1, n) \o <<E(k, v)>> \o SubSeq(o.ents, n + 1, Len(o.ents))]

Set(h, a, k, v) == [h EXCEPT ![a] = PutProp(h[a], k, v)]

\* { ...v }: a new ordinary object with v's own enumerable properties
\* (none for undefined, null, a Headers, a URL).
Spread(h, v) == Obj(IF IsRef(v) THEN h[v.a].ents ELSE <<>>)

(***************************************************************************)
(* The helpers of src/index.ts                                             *)
(***************************************************************************)
\* typeof a === 'object': null and every object (arrays, Headers, URL).
isAnyObject(a) == a.t = "null" \/ a.t = "ref"

\* typeof a === 'object' && a !== null && a.constructor === Object
isPlainObject(h, a) == isAnyObject(a) /\ a # Null /\ h[a.a].cls = "Object"

\* Array.isArray
IsArray(h, a) == IsRef(a) /\ h[a.a].cls = "Array"

IsSchemeChar(c) ==
  ToLowerChar(c) \in LowerLetters \/ c \in Digits \/ c \in {"+", "-", "."}

SlashesAt(s, i) == Len(s) >= i + 1 /\ s[i] = "/" /\ s[i + 1] = "/"

\* The i-th character ends a match of [a-z][a-z\d+\-.]*: (flag i) from the start.
SchemeEndsAt(s, n) ==
  /\ n >= 2 /\ n <= Len(s) /\ s[n] = ":"
  /\ ToLowerChar(s[1]) \in LowerLetters
  /\ \A j \in 2..(n - 1) : IsSchemeChar(s[j])

\* absoluteURLRegex.test(url): /^([a-z][a-z\d+\-.]*:)?\/\//i
isAbsoluteURL(url) ==
  SlashesAt(url, 1) \/ \E n \in 2..Len(url) : SchemeEndsAt(url, n) /\ SlashesAt(url, n + 1)

\* s.replace(/\/+$/, '')
RECURSIVE StripTrailingSlashes(_)
StripTrailingSlashes(s) ==
  IF s # <<>> /\ s[Len(s)] = "/"
  THEN StripTrailingSlashes(SubSeq(s, 1, Len(s) - 1))
  ELSE s

\* s.replace(/^\/+/, '')
RECURSIVE StripLeadingSlashes(_)
StripLeadingSlashes(s) ==
  IF s # <<>> /\ s[1] = "/" THEN StripLeadingSlashes(Tail(s)) ELSE s

combineURLsKeepingSlashes(baseURL, relativeURL) ==
  IF relativeURL # <<>>
  THEN baseURL \o <<"/">> \o StripLeadingSlashes(relativeURL)
  ELSE baseURL

combineURLs(baseURL, relativeURL) ==
  IF relativeURL # <<>>
  THEN StripTrailingSlashes(baseURL) \o <<"/">> \o StripLeadingSlashes(relativeURL)
  ELSE baseURL

\* targetValue.concat(sourceValue): a new array of the elements of both.
ArrayConcat(t, s) ==
  Arr([i \in 1..(Len(t.ents) + Len(s.ents)) |->
         IF i <= Len(t.ents) THEN t.ents[i].v ELSE s.ents[i - Len(t.ents)].v])

RECURSIVE mergeDeep(_, _, _)
RECURSIVE MergeKeys(_, _, _, _)

\* The body of mergeDeep's forEach over the keys still to visit; the result
\* is the heap after the loop.
MergeKeys(h, target, source, keys) ==
  IF keys = <<>> THEN h
  ELSE
    LET key == Head(keys)
        targetValue == GetProp(h[target], key)
        sourceValue == Get(h, source, key)
        h1 ==
          IF IsArray(h, targetValue) /\ IsArray(h, sourceValue)
          THEN Set(Alloc(h, ArrayConcat(h[targetValue.a], h[sourceValue.a])),
                   target, key, Ref(NewAddr(h)))
          ELSE IF isAnyObject(targetValue) /\ isAnyObject(sourceValue)
          THEN Set(mergeDeep(Alloc(h, Spread(h, targetValue)), NewAddr(h), sourceValue),
                   target, key, Ref(NewAddr(h)))
          ELSE Set(h, target, key, sourceValue)
    IN MergeKeys(h1, target, source, Tail(keys))

\* mergeDeep(target, source) mutates the object at address target and returns
\* it; the result here is the heap after the call.
mergeDeep(h, target, source) ==
  IF ~Truthy(source) THEN h ELSE MergeKeys(h, target, source, OwnKeys(h, source))

\* encodeURIComponent on one character: letters, digits and -_.!~*'() are
\* kept, the others are percent-encoded.
EncodeChar(c) ==
  CASE c = "[" -> <<"%","5","B">>
    [] c = "]" -> <<"%","5","D">>
    [] c = "/" -> <<"%","2","F">>
    [] c = ":" -> <<"%","3","A">>
    [] c = "&" -> <<"%","2","6">>
    [] c = "=" -> <<"%","3","D">>
    [] c = "?" -> <<"%","3","F">>
    [] c = " " -> <<"%","2","0">>
    [] c = "%" -> <<"%","2","5">>
    [] c = "+" -> <<"%","2","B">>
    [] OTHER -> <<c>>

encodeURIComponent(s) == Concat([i \in 1..Len(s) |-> EncodeChar(s[i])])

RECURSIVE stringifyParams(_, _, _)
RECURSIVE ParamsLoop(_, _, _, _)

\* The for..in loop of stringifyParams over the keys still to visit: the
\* strings pushed to str.
ParamsLoop(h, params, keys, prefix) ==
  IF keys = <<>> THEN <<>>
  ELSE
    LET p == Head(keys)
        key == IF prefix # <<>> THEN prefix \o <<"[">> \o p \o <<"]">> ELSE p
        value == Get(h, params, p)
        rest == ParamsLoop(h, params, Tail(keys), prefix)
    IN IF value = Undefined THEN rest
       ELSE <<IF value # Null /\ isAnyObject(value)
              THEN stringifyParams(h, value, key)
              ELSE encodeURIComponent(key) \o <<"=">> \o encodeURIComponent(ToStr(value))>>
            \o rest

\* return str.join('&'): the empty strings are not dropped.
stringifyParamsUnfiltered(h, params, prefix) ==
  Join(ParamsLoop(h, params, OwnKeys(h, params), prefix), <<"&">>)

stringifyParams(h, params, prefix) ==
  Join(SelectSeq(ParamsLoop(h, params, OwnKeys(h, params), prefix),
                 LAMBDA p : p # <<>>),
       <<"&">>)

\* JSON.stringify of a string: quoted, with " and \ escaped.
JSONQuote(s) ==
  <<"\"">>
  \o Concat([i \in 1..Len(s) |->
               IF s[i] = "\"" \/ s[i] = "\\" THEN <<"\\", s[i]>> ELSE <<s[i]>>])
  \o <<"\"">>

\* Whether JSON.stringify gives a property with this value no text.
JSONOmitted(v) == v.t = "undefined"

RECURSIVE JSONStringify(_, _)
JSONStringify(h, v) ==
  CASE v.t = "string" -> JSONQuote(v.s)
    [] v.t = "number" -> v.s
    [] v.t = "null" -> S_null
    [] v.t = "undefined" -> S_null
    [] OTHER ->
       LET o == h[v.a]
       IN IF o.cls = "Array"
          THEN <<"[">>
               \o Join([i \in 1..Len(o.ents) |-> JSONStringify(h, o.ents[i].v)], <<",">>)
               \o <<"]">>
          ELSE LET kept == SelectSeq(o.ents, LAMBDA e : ~JSONOmitted(e.v))
               IN <<"{">>
                  \o Join([i \in 1..Len(kept) |->
                             JSONQuote(kept[i].k) \o <<":">> \o JSONStringify(h, kept[i].v)],
                          <<",">>)
                  \o <<"}">>

(***************************************************************************)
(* The platform's Headers and URL, as far as the source uses them          *)
(***************************************************************************)
HeadersHas(list, name) == \E i \in 1..Len(list) : list[i].k = ToLower(name)

\* Headers.prototype.get: the values of the name, combined.
HeadersGet(list, name) ==
  IF HeadersHas(list, name)
  THEN LET mine == SelectSeq(list, LAMBDA e : e.k = ToLower(name))
       IN Str(Join([i \in 1..Len(mine) |-> mine[i].v], <<",", " ">>))
  ELSE Null

\* Headers.prototype.append; names compare without case and are kept
\* lower-cased, as iteration and get show them.
HeadersAppend(list, name, value) == Append(list, E(ToLower(name), value))

\* Headers.prototype.set: the first header of the name takes the value, the
\* others of the name are removed; without one, the header is appended.
HeadersSet(list, name, value) ==
  IF HeadersHas(list, name)
  THEN LET first == CHOOSE i \in 1..Len(list) :
                      /\ list[i].k = ToLower(name)
                      /\ \A j \in 1..(i - 1) : list[j].k # ToLower(name)
           idx == SelectSeq([i \in 1..Len(list) |-> i],
                            LAMBDA i : i = first \/ list[i].k # ToLower(name))
       IN [n \in 1..Len(idx) |->
             IF idx[n] = first THEN E(ToLower(name), value) ELSE list[idx[n]]]
  ELSE HeadersAppend(list, name, value)

RECURSIVE FillHeaders(_, _)
FillHeaders(list, ents) ==
  IF ents = <<>> THEN list
  ELSE FillHeaders(HeadersAppend(list, Head(ents).k, ToStr(Head(ents).v)), Tail(ents))

\* new Headers(init) for the inits of the model: undefined, a record of
\* strings, or a Headers; null is a TypeError.
NewHeaders(h, init) ==
  CASE init.t = "undefined" -> [ok |-> TRUE, obj |-> HeadersObj(<<>>)]
    [] IsRef(init) /\ h[init.a].cls = "Headers" ->
         [ok |-> TRUE, obj |-> HeadersObj(h[init.a].list)]
    [] IsRef(init) -> [ok |-> TRUE, obj |-> HeadersObj(FillHeaders(<<>>, h[init.a].ents))]
    [] OTHER -> [ok |-> FALSE, obj |-> HeadersObj(<<>>)]

\* Index of the first c in s, or 0.
IndexOf(s, c) ==
  IF \E i \in 1..Len(s) : s[i] = c
  THEN CHOOSE i \in 1..Len(s) : s[i] = c /\ \A j \in 1..(i - 1) : s[j] # c
  ELSE 0

HasScheme(s) == \E n \in 2..Len(s) : SchemeEndsAt(s, n)

ParseFailure == [ok |-> FALSE, base |-> <<>>, hasQuery |-> FALSE, query |-> <<>>]

\* The URL record from the scheme (with its ":"), the text between the
\* scheme's slashes and the "?", and the query: the host ends at the first
\* "/", an empty host is a failure, an empty path is "/".
ParseAuthority(scheme, front, p, hasQuery, query) ==
  [ok |-> (IF p = 0 THEN front ELSE SubSeq(front, 1, p - 1)) # <<>>,
   base |-> ToLower(scheme) \o <<"/", "/">>
            \o ToLower(IF p = 0 THEN front ELSE SubSeq(front, 1, p - 1))
            \o (IF p = 0 THEN <<"/">> ELSE SubSeq(front, p, Len(front))),
   hasQuery |-> hasQuery,
   query |-> query]

\* rest is what follows the scheme and its slashes; q the index of its
\* first "?" (0: none).
ParseQuery(scheme, rest, q) ==
  ParseAuthority(scheme,
                 IF q = 0 THEN rest ELSE SubSeq(rest, 1, q - 1),
                 IndexOf(IF q = 0 THEN rest ELSE SubSeq(rest, 1, q - 1), "/"),
                 q # 0,
                 IF q = 0 THEN <<>> ELSE SubSeq(rest, q + 1, Len(rest)))

ParseAfterScheme(scheme, rest) == ParseQuery(scheme, rest, IndexOf(rest, "?"))

\* The URL parser without a base, for the special scheme the model's URLs
\* have: a string without a scheme or with an empty host is a failure
\* (TypeError); scheme and host are lower-cased, slashes after the scheme are
\* skipped, an empty path is "/", the query starts at the first "?".
ParseURL(s) ==
  IF ~HasScheme(s) THEN ParseFailure
  ELSE ParseAfterScheme(SubSeq(s, 1, IndexOf(s, ":")),
                        StripLeadingSlashes(SubSeq(s, IndexOf(s, ":") + 1, Len(s))))

\* The string the URL parser sees for new URL(s, origin): s itself with a
\* scheme, else s resolved against the origin (which has no path).
AgainstOrigin(s, origin) ==
  IF HasScheme(s) THEN s
  ELSE IF SlashesAt(s, 1) THEN SubSeq(origin, 1, IndexOf(origin, ":")) \o s
  ELSE IF s # <<>> /\ s[1] = "/" THEN origin \o s
  ELSE origin \o <<"/">> \o s

\* url.href
Href(u) == u.base \o (IF u.hasQuery THEN <<"?">> \o u.query ELSE <<>>)

\* The getter of url.search: "" for a null or empty query.
SearchOf(u) == IF u.hasQuery /\ u.query # <<>> THEN <<"?">> \o u.query ELSE <<>>

\* The query percent-encode set of a special scheme, on one character.
QueryEncodeChar(c) ==
  CASE c = " " -> <<"%","2","0">>
    [] c = "'" -> <<"%","2","7">>
    [] c = "#" -> <<"%","2","3">>
    [] OTHER -> <<c>>

\* The setter of url.search: "" makes the query null; else one leading "?"
\* is dropped and the rest becomes the query.
SetSearch(u, value) ==
  IF value = <<>> THEN [u EXCEPT !.hasQuery = FALSE, !.query = <<>>]
  ELSE LET input == IF value[1] = "?" THEN Tail(value) ELSE value
       IN [u EXCEPT !.hasQuery = TRUE,
                    !.query = Concat([i \in 1..Len(input) |-> QueryEncodeChar(input[i])])]

(***************************************************************************)
(* convertInputToURL, transformOptions, request                            *)
(***************************************************************************)
\* The outcome of a step that may throw: the heap after it, the address of
\* the URL it returns, and the string it handed to the URL parser.
Thrown(h, err, parsed) ==
  [ok |-> FALSE, err |-> err, h |-> h, url |-> 0, parsed |-> parsed, options |-> 0]

Constructed(h, u, s) ==
  IF u.ok
  THEN [ok |-> TRUE, err |-> "", h |-> Alloc(h, URLObj(u.base, u.hasQuery, u.query)),
        url |-> NewAddr(h), parsed |-> s, options |-> 0]
  ELSE Thrown(h, "TypeError: Invalid URL", s)

\* new URL(s): a fresh URL object, or the parser's TypeError.
NewURL(h, s) == Constructed(h, ParseURL(s), s)

\* The branch of convertInputToURL for a string input that is not absolute.
ConvertRelative(h, input, baseURL, loc) ==
  IF Truthy(baseURL)
  THEN IF isAbsoluteURL(ToStr(baseURL))
       THEN NewURL(h, combineURLs(ToStr(baseURL), input.s))
       ELSE IF loc.defined
       THEN NewURL(h, AgainstOrigin(combineURLs(ToStr(baseURL), input.s), loc.origin))
       ELSE Thrown(h, "base url is relative and browser location is unavailable", <<>>)
  ELSE IF loc.defined
       THEN NewURL(h, AgainstOrigin(input.s, loc.origin))
       ELSE Thrown(h, "base url is not set and browser location is unavailable", <<>>)

convertInputToURL(h, input, init, loc) ==
  IF input.t = "string"
  THEN IF isAbsoluteURL(input.s)
       THEN NewURL(h, input.s)
       ELSE ConvertRelative(h, input, Get(h, init, K_baseURL), loc)
  ELSE IF h[input.a].cls = "Request"
  THEN NewURL(h, Href(h[input.a]))
  ELSE [ok |-> TRUE, err |-> "", h |-> h, url |-> input.a, parsed |-> <<>>, options |-> 0]

\* const { body, headers, params, baseURL, ...rest } = init
RestOf(h, init) ==
  Obj(SelectSeq(Spread(h, init).ents,
                LAMBDA e : e.k \notin {K_body, K_headers, K_params, K_baseURL}))

\* if (body) { ... }: the heap after it, options at address o, the
\* normalized headers at address nh.
BodyStep(h, body, o, nh) ==
  IF Truthy(body)
  THEN IF isPlainObject(h, body)
       THEN [Set(h, o, K_body, Str(JSONStringify(h, body)))
               EXCEPT ![nh].list = HeadersSet(h[nh].list, S_contentType, S_applicationJson)]
       ELSE Set(h, o, K_body, body)
  ELSE h

\* stringifyParams' result appended: url.search += '&' + paramsString
AppendSearch(h, url, paramsString) ==
  IF paramsString # <<>>
  THEN [h EXCEPT ![url] = SetSearch(h[url], SearchOf(h[url]) \o <<"&">> \o paramsString)]
  ELSE h

\* if (params) { ... }: the heap after it, the URL at address url.
ParamsStep(h, params, url) ==
  IF Truthy(params) THEN AppendSearch(h, url, stringifyParams(h, params, <<>>)) ELSE h

\* options.headers = normilizedHeaders; return [url, options]
Transformed(h, c, o, nh) ==
  [ok |-> TRUE, err |-> "", h |-> Set(h, o, K_headers, Ref(nh)),
   url |-> c.url, parsed |-> c.parsed, options |-> o]

\* The body of transformOptions after the headers are normalized (at
\* address nh, in heap h): options = rest, the body, the params.
TransformRest(h, c, init, nh) ==
  Transformed(ParamsStep(BodyStep(Alloc(h, RestOf(h, init)),
                                  Get(h, init, K_body), NewAddr(h), nh),
                         Get(h, init, K_params), c.url),
              c, NewAddr(h), nh)

\* headers instanceof Headers ? headers : new Headers(headers)
NormalizeHeaders(c, init, headers, made) ==
  IF IsRef(headers) /\ c.h[headers.a].cls = "Headers"
  THEN TransformRest(c.h, c, init, headers.a)
  ELSE IF made.ok
  THEN TransformRest(Alloc(c.h, made.obj), c, init, NewAddr(c.h))
  ELSE Thrown(c.h, "TypeError: Headers", c.parsed)

\* transformOptions after convertInputToURL returned c (or threw).
TransformWithURL(c, init) ==
  IF ~c.ok THEN c
  ELSE NormalizeHeaders(c, init, Get(c.h, init, K_headers),
                        NewHeaders(c.h, Get(c.h, init, K_headers)))

transformOptions(h, input, init, loc) ==
  TransformWithURL(convertInputToURL(h, input, init, loc), init)

\* fetch(url, options): the calls of the fetch primitive made, each with
\* the addresses of its arguments.
Fetch(t) ==
  [thrown |-> ~t.ok, err |-> t.err, h |-> t.h, parsed |-> t.parsed,
   fetched |-> IF t.ok THEN <<[url |-> t.url, options |-> t.options]>> ELSE <<>>]

request(h, input, init, loc) == Fetch(transformOptions(h, input, init, loc))

(***************************************************************************)
(* createFetchInstance: the six invocations of an instance                 *)
(***************************************************************************)
\* { method: verb, ...init }: the per-call method would win.
VerbInitMethodFirst(h, init, method) ==
  LET own == Spread(h, init)
  IN IF HasOwn(own, K_method) THEN own
     ELSE Obj(<<E(K_method, Str(method))>> \o own.ents)

\* { ...init, method: verb }
VerbInit(h, init, method) == PutProp(Spread(h, init), K_method, Str(method))

\* What an invocation returns to the model: request's outcome and the
\* address of the merged options.
Outcome(r, merged) ==
  [thrown |-> r.thrown, err |-> r.err, h |-> r.h, parsed |-> r.parsed,
   fetched |-> r.fetched, merged |-> merged]

\* mergeDeep(target, source) where target is the new object at the end of
\* heap h and source the object literal allocated next.
MergeInto(h, source) == mergeDeep(Alloc(h, source), Len(h), Ref(Len(h) + 1))

\* request(input, mergeDeep({ ...defaultInit }, source)): source is the
\* object literal the invocation builds from init.
Invocation(h, defaultInit, input, source, loc) ==
  Outcome(request(MergeInto(Alloc(h, Spread(h, defaultInit)), source),
                  input, Ref(NewAddr(h)), loc),
          NewAddr(h))

extendedFetchInstance(h, defaultInit, input, init, loc) ==
  Invocation(h, defaultInit, input, Spread(h, init), loc)

VerbInvocation(h, defaultInit, input, init, loc, method) ==
  Invocation(h, defaultInit, input, VerbInit(h, init, method), loc)

(***************************************************************************)
(* The world of an instance: the objects the caller holds, the defaults    *)
(***************************************************************************)
\* The longest query of the caller's URL object at which a call may still
\* pass that object as its target.
MaxSearchLen == 4

S_apiData ==
  <<"h","t","t","p","s",":","/","/","a","p","i",".","c","o","m","/","d","a","t","a">>
S_apiBase == <<"h","t","t","p","s",":","/","/","a","p","i",".","c","o","m","/">>
S_siteOrigin == <<"h","t","t","p","s",":","/","/","s","i","t","e",".","i","o">>
S_authorization == <<"A","u","t","h","o","r","i","z","a","t","i","o","n">>
S_tags == <<"t","a","g","s">>
S_textPlain == <<"t","e","x","t","/","p","l","a","i","n">>
S_ContentType == <<"C","o","n","t","e","n","t","-","T","y","p","e">>

\* Addresses of the objects that outlive a call: the caller's URL, Headers
\* and Request objects, then the defaults record and what it refers to.
Addr == [url |-> 1, headers |-> 2, request |-> 3, defaults |-> 4]

CallerObjects ==
  <<URLObj(S_apiData, FALSE, <<>>),
    HeadersObj(<<E(<<"x","-","a">>, <<"1">>)>>),
    RequestObj(S_apiData, FALSE, <<>>)>>

\* The ambient origin: typeof location is 'undefined', or location.origin.
NoLocation == [defined |-> FALSE, origin |-> <<>>]
SiteLocation == [defined |-> TRUE, origin |-> S_siteOrigin]

\* The defaults records instances are created from (the record is at
\* Addr.defaults, what it refers to follows it), each with the ambient
\* origin of the instance's environment.
DefaultsChoices ==
  LET d == Addr.defaults
  IN { [loc |-> NoLocation, objs |-> <<Obj(<<>>)>>],
       [loc |-> NoLocation,
        objs |-> <<Obj(<<E(K_headers, Ref(d + 1)), E(K_baseURL, Str(S_apiBase))>>),
                   HeadersObj(<<E(ToLower(S_authorization), <<"t">>)>>)>>],
       [loc |-> NoLocation,
        objs |-> <<Obj(<<E(K_headers, Ref(d + 1)), E(K_params, Ref(d + 2)),
                         E(K_method, Str(S_PUT))>>),
                   Obj(<<E(S_authorization, Str(<<"t">>))>>),
                   Obj(<<E(S_tags, Ref(d + 3))>>),
                   Arr(<<Str(<<"a">>)>>)>>],
       [loc |-> SiteLocation,
        objs |-> <<Obj(<<E(K_body, Ref(d + 1)), E(K_baseURL, Str(<<"/","v","1">>))>>),
                   Obj(<<E(<<"x">>, Num(<<"1">>))>>)>>] }

\* The options records a caller passes, built at address b + 1 for the call
\* (<<>>: the call passes no options).
OptionsChoices(b) ==
  << <<>>,
     <<Obj(<<E(K_params, Ref(b + 2))>>), Obj(<<E(<<"q">>, Str(<<"x">>))>>)>>,
     <<Obj(<<E(K_body, Ref(b + 2)), E(K_headers, Ref(Addr.headers))>>),
       Obj(<<E(<<"x">>, Str(<<"1">>))>>)>>,
     <<Obj(<<E(K_headers, Ref(b + 2)), E(K_body, Str(<<"r","a","w">>)),
             E(K_method, Str(S_PUT))>>),
       Obj(<<E(S_ContentType, Str(S_textPlain))>>)>>,
     <<Obj(<<E(K_params, Ref(b + 2)), E(K_headers, Ref(b + 4))>>),
       Obj(<<E(S_tags, Ref(b + 3))>>),
       Arr(<<Str(<<"b">>)>>),
       Obj(<<E(<<"x","-","b">>, Str(<<"2">>))>>)>>,
     <<Obj(<<E(K_body, Ref(b + 2))>>), Obj(<<E(<<"x">>, Str(<<"1">>))>>)>> >>

NumOptions == Len(OptionsChoices(0))

\* The targets of the instance's calls: an absolute string, a relative one,
\* the caller's URL object.
Targets == { Str(S_apiData), Str(<<"/","p">>), Ref(Addr.url) }

NoCall ==
  [op |-> "none", verb |-> <<>>, input |-> Undefined, init |-> Undefined,
   thrown |-> FALSE, fetched |-> <<>>, parsed |-> <<>>, merged |-> 0]

Init ==
  /\ \E d \in DefaultsChoices :
       /\ heap = CallerObjects \o d.objs
       /\ location = d.loc
  /\ created = heap
  /\ before = heap
  /\ pc = "idle"
  /\ last = NoCall

\* The objects that outlive a call.
Persistent == SubSeq(heap, 1, Len(created))

\* The caller's URL object is passed as target while its query is short.
MayPass(input) ==
  input = Ref(Addr.url) => Len(heap[Addr.url].query) <= MaxSearchLen

\* The state after an invocation with outcome r, entered with heap pre.
Returned(r, pre, verb, input, init) ==
  /\ heap' = r.h
  /\ before' = pre
  /\ last' = [op |-> "call", verb |-> verb, input |-> input, init |-> init,
              thrown |-> r.thrown, fetched |-> r.fetched, parsed |-> r.parsed,
              merged |-> r.merged]
  /\ UNCHANGED <<created, location, pc>>

\* The caller's options for the call: undefined, or the record built at
\* the end of the heap.
InitOf(pre, o) ==
  IF OptionsChoices(0)[o] = <<>> THEN Undefined ELSE Ref(Len(Persistent) + 1)

\* An invocation of the instance, from the objects that outlive calls and
\* the options the caller builds for it: method is the verb, <<>> for the
\* default invocation.
Invoke(method) ==
  \E input \in Targets, o \in 1..NumOptions :
    LET pre == Persistent \o OptionsChoices(Len(Persistent))[o]
        init == InitOf(pre, o)
    IN /\ MayPass(input)
       /\ Returned(IF method = <<>>
                   THEN extendedFetchInstance(pre, Ref(Addr.defaults), input, init, location)
                   ELSE VerbInvocation(pre, Ref(Addr.defaults), input, init, location, method),
                   pre, method, input, init)

call == pc = "idle" /\ Invoke(<<>>)
get == pc = "idle" /\ Invoke(S_GET)
post == pc = "idle" /\ Invoke(S_POST)
put == pc = "idle" /\ Invoke(S_PUT)
patch == pc = "idle" /\ Invoke(S_PATCH)
delete == pc = "idle" /\ Invoke(S_DELETE)

Next == call \/ get \/ post \/ put \/ patch \/ delete

Spec == Init /\ [][Next]_vars

(***************************************************************************)
(* request(input, init) on its own: init is the merged options record      *)
(***************************************************************************)
S_apiV1Slashes ==
  <<"h","t","t","p","s",":","/","/","a","p","i",".","c","o","m","/","v","1","/","/">>
S_apiNoSlash == <<"h","t","t","p","s",":","/","/","a","p","i",".","c","o","m">>
S_apiUpper == <<"H","T","T","P","S",":","/","/","A","P","I",".","c","o","m","/">>
S_cdn == <<"/","/","c","d","n",".","c","o","m">>
S_raw == <<"r","a","w">>

\* The objects an init record of RequestInits may refer to follow the
\* caller's objects and the record itself.
InitAddr ==
  [init |-> Len(CallerObjects) + 1, body |-> Len(CallerObjects) + 2,
   blob |-> Len(CallerObjects) + 3, headers |-> Len(CallerObjects) + 4,
   params |-> Len(CallerObjects) + 5, noParams |-> Len(CallerObjects) + 6]

InitParts ==
  <<Obj(<<E(<<"x">>, Str(<<"1">>))>>),
    BlobObj,
    Obj(<<E(S_ContentType, Str(S_textPlain)), E(<<"x","-","b">>, Str(<<"2">>))>>),
    Obj(<<E(<<"q">>, Str(<<"x">>))>>),
    Obj(<<>>)>>

BodyChoices ==
  { <<>>, <<E(K_body, Null)>>, <<E(K_body, Str(<<>>))>>, <<E(K_body, Str(S_raw))>>,
    <<E(K_body, Ref(InitAddr.body))>>, <<E(K_body, Ref(InitAddr.blob))>> }

HeadersChoices ==
  { <<>>, <<E(K_headers, Ref(InitAddr.headers))>>, <<E(K_headers, Ref(Addr.headers))>> }

ParamsChoices ==
  { <<>>, <<E(K_params, Ref(InitAddr.params))>>, <<E(K_params, Ref(InitAddr.noParams))>> }

BaseURLChoices ==
  { <<>> } \cup
  { <<E(K_baseURL, Str(b))>> :
      b \in { <<>>, S_apiNoSlash, S_apiBase, S_apiV1Slashes, S_apiUpper, S_cdn,
              <<"/","v","1">>, <<"v","1","/">> } }

RequestTargets ==
  { Str(S_apiData), Str(S_apiData \o <<"?","a","=","1">>), Str(S_cdn \o <<"/","x">>),
    Str(<<>>), Str(<<"p">>), Str(<<"/","p">>), Str(<<"p","/","q","?","z","=","1">>),
    Ref(Addr.url), Ref(Addr.request) }

InitRequest ==
  /\ \E b \in BodyChoices, hd \in HeadersChoices, pa \in ParamsChoices, ba \in BaseURLChoices :
       heap = CallerObjects \o <<Obj(b \o hd \o pa \o ba)>> \o InitParts
  /\ created = heap
  /\ before = heap
  /\ location \in {NoLocation, SiteLocation}
  /\ pc = "ready"
  /\ \E input \in RequestTargets :
       last = [NoCall EXCEPT !.op = "request", !.input = input, !.init = Ref(InitAddr.init)]

Requested(r) ==
  /\ heap' = r.h
  /\ last' = [last EXCEPT !.thrown = r.thrown, !.fetched = r.fetched, !.parsed = r.parsed]
  /\ pc' = "done"
  /\ UNCHANGED <<created, before, location>>

Request ==
  /\ pc = "ready"
  /\ Requested(request(heap, last.input, last.init, location))

NextRequest == Request

SpecRequest == InitRequest /\ [][NextRequest]_vars

(***************************************************************************)
(* Properties of request, transformOptions and convertInputToURL           *)
(***************************************************************************)
\* What the last request was given and what it handed to fetch.
GivenBody == Get(before, last.init, K_body)
GivenHeaders == Get(before, last.init, K_headers)
GivenBaseURL == Get(before, last.init, K_baseURL)
SentOptions == heap[last.fetched[1].options]
SentHeaders == heap[GetProp(SentOptions, K_headers).a].list
SentURL == heap[last.fetched[1].url]

S_jsonX1 == <<"{", "\"", "x", "\"", ":", "\"", "1", "\"", "}">>

IsRawPayload(h, v) == v.t = "string" \/ (IsRef(v) /\ h[v.a].cls = "Blob")

\* C3: a plain-record body is sent as its JSON encoding with content-type
\* application/json (replacing a content-type already supplied); a string or
\* other raw payload is sent as that same value, and no content-type header
\* is added or changed.
C3_BodyHandling ==
  (pc = "done" /\ ~last.thrown) =>
    /\ isPlainObject(before, GivenBody) =>
         /\ GetProp(SentOptions, K_body) = Str(S_jsonX1)
         /\ HeadersGet(SentHeaders, S_contentType) = Str(S_applicationJson)
    /\ IsRawPayload(before, GivenBody) =>
         /\ GetProp(SentOptions, K_body) = GivenBody
         /\ HeadersGet(SentHeaders, S_contentType)
              = HeadersGet(NewHeaders(before, GivenHeaders).obj.list, S_contentType)

\* C3 without the empty string: the same statement for truthy bodies.
C3_NonEmptyBodies ==
  (pc = "done" /\ ~last.thrown /\ Truthy(GivenBody)) => C3_BodyHandling

\* C5: with a relative string target and no ambient origin, request throws
\* exactly when baseURL is unset or relative, and then fetch is not invoked;
\* otherwise fetch is invoked exactly once.
C5_FailsIffNoAbsoluteBase ==
  (pc = "done" /\ last.input.t = "string" /\ ~isAbsoluteURL(last.input.s)
     /\ ~location.defined) =>
    LET fails == ~Truthy(GivenBaseURL) \/ ~isAbsoluteURL(ToStr(GivenBaseURL))
    IN /\ last.thrown <=> fails
       /\ Len(last.fetched) = IF fails THEN 0 ELSE 1

\* C5, the part the code keeps: a request that throws invokes fetch not at
\* all, any other invokes it exactly once.
C5_ThrowsOrFetchesOnce ==
  pc = "done" => Len(last.fetched) = IF last.thrown THEN 0 ELSE 1

\* parsed is base without its trailing slashes, one "/", and target without
\* its leading slashes.
IsStripJoin(parsed, base, target) ==
  \E i \in 0..Len(base), j \in 1..(Len(target) + 1) :
    /\ i = 0 \/ base[i] # "/"
    /\ \A k \in (i + 1)..Len(base) : base[k] = "/"
    /\ j = Len(target) + 1 \/ target[j] # "/"
    /\ \A k \in 1..(j - 1) : target[k] = "/"
    /\ parsed = SubSeq(base, 1, i) \o <<"/">> \o SubSeq(target, j, Len(target))

RelativeOverAbsoluteBase ==
  /\ pc = "done" /\ last.input.t = "string" /\ ~isAbsoluteURL(last.input.s)
  /\ Truthy(GivenBaseURL) /\ isAbsoluteURL(ToStr(GivenBaseURL))

\* C6 as stated: for every relative string target (the empty one included)
\* over an absolute baseURL the string parsed is the stripped base, one "/",
\* the stripped target; an absolute string target is parsed as it is.
C6_Original ==
  /\ RelativeOverAbsoluteBase =>
       IsStripJoin(last.parsed, ToStr(GivenBaseURL), last.input.s)
  /\ (pc = "done" /\ last.input.t = "string" /\ isAbsoluteURL(last.input.s)) =>
       last.parsed = last.input.s

\* C6 as amended: for every non-empty relative string target over an
\* absolute baseURL the string parsed is the stripped base, one "/", the
\* stripped target; for the empty target it is the baseURL unchanged; an
\* absolute string target is parsed as it is, whatever the baseURL.
C6_CombinedURL ==
  /\ RelativeOverAbsoluteBase =>
       IF last.input.s = <<>>
       THEN last.parsed = ToStr(GivenBaseURL)
       ELSE IsStripJoin(last.parsed, ToStr(GivenBaseURL), last.input.s)
  /\ (pc = "done" /\ last.input.t = "string" /\ isAbsoluteURL(last.input.s)) =>
       last.parsed = last.input.s

\* A relative target with a leading slash over a base with trailing slashes
\* was parsed as https://api.com/v1/p, and fetched.
C6_Witness ==
  /\ pc = "done"
  /\ last.input = Str(<<"/","p">>)
  /\ GivenBaseURL = Str(S_apiV1Slashes)
  /\ last.parsed = StripTrailingSlashes(S_apiV1Slashes) \o <<"/","p">>
  /\ Len(last.fetched) = 1

(***************************************************************************)
(* Properties of the instances                                             *)
(***************************************************************************)
\* The addresses object a refers to directly.
Refs(h, a) ==
  {h[a].ents[i].v.a : i \in {j \in 1..Len(h[a].ents) : IsRef(h[a].ents[j].v)}}

\* The addresses reachable from the addresses in S.
RECURSIVE Closure(_, _)
Closure(h, S) ==
  LET T == S \cup UNION {Refs(h, a) : a \in S}
  IN IF T = S THEN S ELSE Closure(h, T)

\* C1: the defaults record and every value reachable from it are, after any
\* sequence of calls, what they were when the instance was created.
C1_DefaultsNeverMutated ==
  \A a \in Closure(created, {Addr.defaults}) : heap[a] = created[a]

\* C1 for the ordinary objects of the defaults (records and arrays): they
\* are what they were when the instance was created.
C1_PlainDefaultsNeverMutated ==
  \A a \in Closure(created, {Addr.defaults}) :
    created[a].cls \in {"Object", "Array"} => heap[a] = created[a]

\* C2: a verb-bound invocation hands the fetch primitive the method of its
\* verb, whatever method the defaults or the per-call options set.
C2_VerbMethod ==
  (last.op = "call" /\ last.verb # <<>> /\ ~last.thrown) =>
    /\ Len(last.fetched) = 1
    /\ GetProp(SentOptions, K_method) = Str(last.verb)

\* delete was called with options that set method PUT, and fetch got DELETE.
C2_Witness ==
  /\ last.op = "call" /\ last.verb = S_DELETE /\ ~last.thrown
  /\ Get(before, last.init, K_method) = Str(S_PUT)
  /\ GetProp(SentOptions, K_method) = Str(S_DELETE)

\* The per-call options are { params: { q: "x" } } and the defaults set
\* neither params nor body.
OnlyParamsQX ==
  /\ IsRef(last.init)
  /\ OwnKeys(before, last.init) = <<K_params>>
  /\ IsRef(Get(before, last.init, K_params))
  /\ before[Get(before, last.init, K_params).a] = Obj(<<E(<<"q">>, Str(<<"x">>))>>)
  /\ ~HasOwn(created[Addr.defaults], K_params)
  /\ ~HasOwn(created[Addr.defaults], K_body)

\* C4: get("https://api.com/data", { params: { q: "x" } }) invokes fetch with
\* method GET, no body, and the URL https://api.com/data?q=x.
C4_GetWithParams ==
  (last.op = "call" /\ last.verb = S_GET /\ last.input = Str(S_apiData) /\ OnlyParamsQX) =>
    /\ ~last.thrown
    /\ GetProp(SentOptions, K_method) = Str(S_GET)
    /\ ~HasOwn(SentOptions, K_body)
    /\ Href(SentURL) = S_apiData \o <<"?","q","=","x">>

\* C4 as the code has it: the query starts with the "&" that joins params
\* to the target's own query.
C4_GetWithParamsAmpersand ==
  (last.op = "call" /\ last.verb = S_GET /\ last.input = Str(S_apiData) /\ OnlyParamsQX) =>
    /\ ~last.thrown
    /\ GetProp(SentOptions, K_method) = Str(S_GET)
    /\ ~HasOwn(SentOptions, K_body)
    /\ Href(SentURL) = S_apiData \o <<"?","&","q","=","x">>

\* The serialized params of the last call's merged options.
OwnParamsString ==
  stringifyParams(heap, Get(heap, Ref(last.merged), K_params), <<>>)

\* C9: a call that passes the caller's URL object as target leaves that
\* object unchanged and hands fetch the target's URL plus the call's own
\* serialized params only.
C9_FreshURLPerCall ==
  (last.op = "call" /\ last.input = Ref(Addr.url) /\ ~last.thrown) =>
    /\ heap[Addr.url] = created[Addr.url]
    /\ SentURL.base = created[Addr.url].base
    /\ SentURL.query \in {OwnParamsString, <<"&">> \o OwnParamsString}

\* C9 for string targets: the URL handed to fetch is an object made by the
\* call, none of the objects that outlive it.
C9_FreshURLForStrings ==
  (last.op = "call" /\ last.input.t = "string" /\ ~last.thrown) =>
    last.fetched[1].url > Len(before)

\* C10: a call leaves the per-call options record and every value reachable
\* from it (headers, params, body) as they were before the call.
C10_OptionsNeverMutated ==
  (last.op = "call" /\ IsRef(last.init)) =>
    \A a \in Closure(before, {last.init.a}) : heap[a] = before[a]

(***************************************************************************)
(* stringifyParams and mergeDeep on their own                              *)
(***************************************************************************)
\* The values a property of a params or options record takes: v is the
\* value, objs the objects it is made of, the first of them at address a.
Shape(n, a) ==
  CASE n = "undefined" -> [v |-> Undefined, objs |-> <<>>]
    [] n = "null" -> [v |-> Null, objs |-> <<>>]
    [] n = "string" -> [v |-> Str(<<"y">>), objs |-> <<>>]
    [] n = "reserved" -> [v |-> Str(<<"a","&","b"," ","=">>), objs |-> <<>>]
    [] n = "number" -> [v |-> Num(<<"1">>), objs |-> <<>>]
    [] n = "empty" -> [v |-> Ref(a), objs |-> <<Obj(<<>>)>>]
    [] n = "record" ->
         [v |-> Ref(a),
          objs |-> <<Obj(<<E(<<"c">>, Str(<<"y">>)), E(<<"d">>, Undefined),
                        E(<<"e">>, Null)>>)>>]
    [] n = "array" -> [v |-> Ref(a), objs |-> <<Arr(<<Str(<<"x">>), Num(<<"2">>)>>)>>]
    [] n = "nested" ->
         [v |-> Ref(a),
          objs |-> <<Obj(<<E(<<"c">>, Ref(a + 1)), E(<<"f">>, Str(<<"w">>))>>),
                     Obj(<<E(<<"d">>, Str(<<"z">>))>>)>>]
    [] n = "hollow" ->
         [v |-> Ref(a),
          objs |-> <<Obj(<<E(<<"c">>, Ref(a + 1)), E(<<"d">>, Undefined)>>), Obj(<<>>)>>]
    [] n = "headers" ->
         [v |-> Ref(a), objs |-> <<HeadersObj(<<E(<<"x","-","a">>, <<"1">>)>>)>>]

ParamShapes ==
  {"undefined", "null", "string", "reserved", "number", "empty", "record", "array",
   "nested", "hollow"}

ParamKeys == {<<"a">>, <<"b">>, <<>>}

\* A record with one property, at address a, followed by its objects.
OneProperty(k, n, a) == <<Obj(<<E(k, Shape(n, a + 1).v)>>)>> \o Shape(n, a + 1).objs

\* A record with two properties, at address a, followed by their objects.
TwoProperties(k1, n1, k2, n2, a) ==
  <<Obj(<<E(k1, Shape(n1, a + 1).v),
          E(k2, Shape(n2, a + 1 + Len(Shape(n1, a + 1).objs)).v)>>)>>
  \o Shape(n1, a + 1).objs
  \o Shape(n2, a + 1 + Len(Shape(n1, a + 1).objs)).objs

InitParams ==
  /\ \/ \E k \in ParamKeys, n \in ParamShapes : heap = OneProperty(k, n, 1)
     \/ \E k1 \in ParamKeys, n1 \in ParamShapes, n2 \in ParamShapes :
          \E k2 \in ParamKeys \ {k1} : heap = TwoProperties(k1, n1, k2, n2, 1)
  /\ created = heap
  /\ before = heap
  /\ location = NoLocation
  /\ pc = "ready"
  /\ \E prefix \in {<<>>, <<"p">>} :
       last = [op |-> "stringifyParams", params |-> Ref(1), prefix |-> prefix, str |-> <<>>]

Stringify ==
  /\ pc = "ready"
  /\ last' = [last EXCEPT !.str = stringifyParams(heap, last.params, last.prefix)]
  /\ pc' = "done"
  /\ UNCHANGED <<heap, created, before, location>>

NextParams == Stringify

SpecParams == InitParams /\ [][NextParams]_vars

MergeShapes ==
  {"absent", "undefined", "null", "string", "number", "empty", "record", "array",
   "nested", "headers"}

\* The record mergeDeep is given as target or source, at address a: a
\* property k of shape n (none when absent), after a property j when more.
MergeRecord(n, more, a) ==
  LET j == IF more THEN <<E(<<"j">>, Str(<<"0">>))>> ELSE <<>>
  IN IF n = "absent" THEN <<Obj(j)>>
     ELSE <<Obj(j \o <<E(<<"k">>, Shape(n, a + 1).v)>>)>> \o Shape(n, a + 1).objs

InitMerge ==
  /\ \E nt \in MergeShapes, ns \in MergeShapes, mt \in BOOLEAN, ms \in BOOLEAN :
       /\ heap = MergeRecord(nt, mt, 1)
                 \o MergeRecord(ns, ms, Len(MergeRecord(nt, mt, 1)) + 1)
       /\ \E given \in BOOLEAN :
            last = [op |-> "mergeDeep", target |-> 1,
                    source |-> IF given THEN Ref(Len(MergeRecord(nt, mt, 1)) + 1)
                               ELSE Undefined]
  /\ created = heap
  /\ before = heap
  /\ location = NoLocation
  /\ pc = "ready"

Merge ==
  /\ pc = "ready"
  /\ heap' = mergeDeep(heap, last.target, last.source)
  /\ pc' = "done"
  /\ UNCHANGED <<created, before, location, last>>

NextMerge == Merge

SpecMerge == InitMerge /\ [][NextMerge]_vars

(***************************************************************************)
(* Properties of stringifyParams and mergeDeep                             *)
(***************************************************************************)
RECURSIVE LeafFragments(_, _, _)
RECURSIVE Fragments(_, _, _)

\* The key path of key k under prefix: prefix[k], and k itself without a
\* prefix (the empty prefix is the absent one, as for stringifyParams).
KeyPath(prefix, k) == IF prefix = <<>> THEN k ELSE prefix \o <<"[">> \o k \o <<"]">>

\* One "key=value" fragment per leaf of the entries ents, in order.
Fragments(h, ents, prefix) ==
  IF ents = <<>> THEN <<>>
  ELSE LeafFragments(h, Head(ents).v, KeyPath(prefix, Head(ents).k))
       \o Fragments(h, Tail(ents), prefix)

\* The fragments of value v under the key path: none for undefined, those
\* of its entries for a record or an array, one for any other value.
LeafFragments(h, v, path) ==
  IF v = Undefined THEN <<>>
  ELSE IF IsRef(v) THEN Fragments(h, h[v.a].ents, path)
  ELSE <<encodeURIComponent(path) \o <<"=">> \o encodeURIComponent(ToStr(v))>>

\* C7: stringifyParams(record, prefix) is one key=value fragment per leaf
\* value in key iteration order, joined by "&" with no empty fragment:
\* nothing for undefined, "null" for null, the entries of a nested record or
\* array under the key path prefix[key], nothing for a nested record without
\* emitted entries.
C7_OneFragmentPerLeaf ==
  pc = "done" =>
    /\ last.str = Join(Fragments(heap, heap[last.params.a].ents, last.prefix), <<"&">>)
    /\ \A i \in 1..Len(last.str) :
         last.str[i] = "&" => /\ i > 1 /\ i < Len(last.str)
                              /\ last.str[i + 1] # "&"

\* { a: { c: {}, d: undefined }, b: ["x", 2] } was serialized: the hollow
\* record a gives nothing, the array b one fragment per element.
C7_Witness ==
  /\ pc = "done"
  /\ heap = TwoProperties(<<"a">>, "hollow", <<"b">>, "array", 1)
  /\ last.prefix = <<>>
  /\ last.str = <<"b","%","5","B","0","%","5","D","=","x","&",
                  "b","%","5","B","1","%","5","D","=","2">>

BothArrays(h, t, v) == IsArray(h, t) /\ IsArray(h, v)
BothPlainRecords(h, t, v) == isPlainObject(h, t) /\ isPlainObject(h, v)

\* C8: at every key of source whose target and source values are not both
\* arrays and not both plain records, the merged value is the source value.
C8_SourceReplaces ==
  (pc = "done" /\ IsRef(last.source)) =>
    \A i \in 1..Len(before[last.source.a].ents) :
      LET key == before[last.source.a].ents[i].k
          sourceValue == before[last.source.a].ents[i].v
          targetValue == GetProp(before[last.target], key)
      IN (~BothArrays(before, targetValue, sourceValue)
            /\ ~BothPlainRecords(before, targetValue, sourceValue))
           => GetProp(heap[last.target], key) = sourceValue

\* C8 where one of the two values is no object at all (typeof is not
\* 'object'): the merged value is the source value.
C8_ReplacesNonObjects ==
  (pc = "done" /\ IsRef(last.source)) =>
    \A i \in 1..Len(before[last.source.a].ents) :
      LET key == before[last.source.a].ents[i].k
          sourceValue == before[last.source.a].ents[i].v
          targetValue == GetProp(before[last.target], key)
      IN (~isAnyObject(targetValue) \/ ~isAnyObject(sourceValue))
           => GetProp(heap[last.target], key) = sourceValue

\* C10 for the ordinary objects of the options (records and arrays): the
\* call leaves them as they were.
C10_PlainOptionsNeverMutated ==
  (last.op = "call" /\ IsRef(last.init)) =>
    \A a \in Closure(before, {last.init.a}) :
      before[a].cls \in {"Object", "Array"} => heap[a] = before[a]

====
